---- MODULE Spec2Model ----
(***************************************************************************)
(* Model of src/helpers/data.ts: load(data) turns the spreadsheet feed     *)
(* into the application State.                                             *)
(*                                                                         *)
(* A JavaScript string is a sequence of atoms.  An atom is a single        *)
(* character ("a", ",", " ", "\n", ...) or an opaque run of characters     *)
(* that holds no separator and no whitespace at its ends (a time           *)
(* expression such as "Monday 7:00 pm", a URL scheme such as "https").     *)
(***************************************************************************)
EXTENDS Integers, Sequences, FiniteSets, TLC

\* ------------------------------------------------------------ bounds
MaxRows == 2
MaxTimes == 3
MaxNameLen == 4
MaxDigits == 10
MaxTags == 2

\* ------------------------------------------------------- string basics
\* String.prototype.trim's whitespace, within the alphabet of the model
IsWs(c) == c \in {" ", "\t", "\n"}

\* the regular expression classes \d and \D
IsDigit(c) == c \in {"0", "1", "2", "3", "4", "5", "6", "7", "8", "9"}

RECURSIVE trimStart(_)
trimStart(s) ==
    IF s = <<>> THEN s
    ELSE IF IsWs(Head(s)) THEN trimStart(Tail(s)) ELSE s

RECURSIVE trimEnd(_)
trimEnd(s) ==
    IF s = <<>> THEN s
    ELSE IF IsWs(s[Len(s)]) THEN trimEnd(SubSeq(s, 1, Len(s) - 1)) ELSE s

\* String.prototype.trim
trim(s) == trimEnd(trimStart(s))

\* index of the first occurrence of atom sep in s, 0 when there is none
IndexOf(s, sep) ==
    LET hits == {k \in 1..Len(s) : s[k] = sep}
    IN  IF hits = {} THEN 0 ELSE CHOOSE k \in hits : \A j \in hits : k <= j

\* String.prototype.split on a one-character separator: "".split(",") is [""]
RECURSIVE split(_, _)
split(s, sep) ==
    LET k == IndexOf(s, sep)
    IN  IF k = 0 THEN <<s>>
        ELSE <<SubSeq(s, 1, k - 1)>> \o split(SubSeq(s, k + 1, Len(s)), sep)

\* Array.prototype.join
RECURSIVE join(_, _)
join(parts, sep) ==
    IF parts = <<>> THEN <<>>
    ELSE IF Len(parts) = 1 THEN parts[1]
    ELSE parts[1] \o <<sep>> \o join(Tail(parts), sep)

MapSeq(Op(_), q) == [k \in 1..Len(q) |-> Op(q[k])]

NonEmpty(v) == v # <<>>

\* Array.prototype.includes
includes(array, v) == \E k \in 1..Len(array) : array[k] = v

Range(q) == {q[k] : k \in 1..Len(q)}

\* stringToTrimmedArray(str, sep): split, trim every part, drop the empty ones
stringToTrimmedArray(str, sep) ==
    SelectSeq(MapSeq(trim, split(str, sep)), NonEmpty)

\* String.prototype.toLowerCase on the atoms of the model
LowerOf(c) ==
    CASE c = "A" -> "a"
      [] c = "B" -> "b"
      [] OTHER -> c

toLowerCase(s) == MapSeq(LowerOf, s)

\* searchIndex without .filter(e => e)
searchIndexKeepEmpty(name) == join(split(toLowerCase(name), " "), " ")

\* meeting.search: name.toLowerCase().split(' ').filter(e => e).join(' ')
searchIndex(name) ==
    join(SelectSeq(split(toLowerCase(name), " "), NonEmpty), " ")


\* ------------------------------------------------- contact channels
\* new URL(originalUrl): the scheme is a run of letters before the first ":"
IsAlphaAtom(c) == c \in {"https", "mailto", "a", "b", "c", "m", "o", "A", "B"}

IsSpecialScheme(p) == p = <<"https">>

\* the host of a special-scheme URL: after ":" and any "/", up to the next "/"
RECURSIVE dropSlashes(_)
dropSlashes(s) ==
    IF s # <<>> /\ Head(s) = "/" THEN dropSlashes(Tail(s)) ELSE s

urlHost(s) ==
    LET rest == dropSlashes(SubSeq(s, IndexOf(s, ":") + 1, Len(s)))
        k == IndexOf(rest, "/")
    IN  IF k = 0 THEN rest ELSE SubSeq(rest, 1, k - 1)

\* whether new URL(s) returns (TRUE) or throws a TypeError (FALSE)
urlParses(s) ==
    LET k == IndexOf(s, ":")
        scheme == SubSeq(s, 1, k - 1)
    IN  /\ k > 1
        /\ \A j \in 1..(k - 1) : IsAlphaAtom(s[j])
        /\ IsSpecialScheme(scheme) =>
              /\ urlHost(s) # <<>>
              /\ \A j \in 1..Len(urlHost(s)) : ~IsWs(urlHost(s)[j])

\* url.hostname: empty for a URL whose scheme has no host
hostname(s) == IF IsSpecialScheme(SubSeq(s, 1, IndexOf(s, ":") - 1)) THEN urlHost(s) ELSE <<>>

\* String.prototype.endsWith
endsWith(s, suffix) ==
    /\ Len(suffix) <= Len(s)
    /\ SubSeq(s, Len(s) - Len(suffix) + 1, Len(s)) = suffix

\* config.videoServices: service name -> domain suffixes, in key order
videoServices ==
    << [service |-> <<"Zoom">>, domains |-> << <<"zoom", ".", "us">> >>] >>

serviceMatches(entry, host) ==
    \E d \in 1..Len(entry.domains) : endsWith(host, entry.domains[d])

\* String.prototype.replace('www.', ''): the first occurrence only
replaceWww(h) ==
    LET hits == {k \in 1..(Len(h) - 1) : h[k] = "www" /\ h[k + 1] = "."}
    IN  IF hits = {} THEN h
        ELSE LET k == CHOOSE x \in hits : \A y \in hits : x <= y
             IN  SubSeq(h, 1, k - 1) \o SubSeq(h, k + 2, Len(h))

\* the button pushed for a URL that parses
urlButton(originalUrl) ==
    LET host == hostname(originalUrl)
        service == SelectSeq(videoServices, LAMBDA e : serviceMatches(e, host))
    IN  [icon |-> IF service # <<>> THEN "video" ELSE "link",
         text |-> IF service # <<>> THEN service[1].service ELSE replaceWww(host),
         title |-> <<"Visita ">> \o originalUrl,
         target |-> originalUrl]

\* originalPhone.replace(/\D/g, '')
phoneDigits(originalPhone) == SelectSeq(originalPhone, IsDigit)

\* the longest digit string that is still rejected (phone.length > 8)
PhoneMinDigits == 8

\* phoneAccepted with >= for >
phoneAcceptedFromEight(originalPhone) ==
    Len(phoneDigits(originalPhone)) >= PhoneMinDigits

phoneAccepted(originalPhone) == Len(phoneDigits(originalPhone)) > PhoneMinDigits

\* phone += ',,' + accessCode, when the access code is not empty
phoneTarget(originalPhone, accessCode) ==
    IF Len(accessCode) # 0
    THEN phoneDigits(originalPhone) \o <<",", ",">> \o accessCode
    ELSE phoneDigits(originalPhone)

phoneButton(originalPhone, accessCode) ==
    [icon |-> "phone",
     text |-> <<"Telefono">>,
     title |-> <<"Chiama ">> \o phoneTarget(originalPhone, accessCode),
     target |-> <<"tel:">> \o phoneTarget(originalPhone, accessCode)]

\* validateEmail's regular expression, class by class
IsAlnumDash(c) == IsDigit(c) \/ c \in {"a", "b", "c", "m", "o", "A", "B", "-"}
IsLetter(c) == c \in {"a", "b", "c", "m", "o", "A", "B"}
\* [^<>()[\]\\.,;:\s@"]
IsAtomChar(c) ==
    /\ ~IsWs(c)
    /\ c \notin {"<", ">", "(", ")", "[", "]", "\\", ".", ",", ";", ":", "@", "\""}

AllOf(s, P(_)) == \A k \in 1..Len(s) : P(s[k])

\* [^...]+(\.[^...]+)*  |  ".+"
emailLocalOk(l) ==
    \/ LET parts == split(l, ".")
       IN  \A k \in 1..Len(parts) : parts[k] # <<>> /\ AllOf(parts[k], IsAtomChar)
    \/ /\ Len(l) >= 3
       /\ l[1] = "\"" /\ l[Len(l)] = "\""
       /\ \A k \in 2..(Len(l) - 1) : l[k] # "\n"

IsOctet(p) == Len(p) \in 1..3 /\ AllOf(p, IsDigit)

\* \[d{1,3}\.d{1,3}\.d{1,3}\.d{1,3}\]  |  ([a-zA-Z\-0-9]+\.)+[a-zA-Z]{2,}
emailDomainOk(d) ==
    \/ /\ Len(d) >= 2 /\ d[1] = "[" /\ d[Len(d)] = "]"
       /\ LET parts == split(SubSeq(d, 2, Len(d) - 1), ".")
          IN  Len(parts) = 4 /\ \A k \in 1..4 : IsOctet(parts[k])
    \/ LET parts == split(d, ".")
           n == Len(parts)
       IN  /\ n >= 2
           /\ \A k \in 1..(n - 1) : parts[k] # <<>> /\ AllOf(parts[k], IsAlnumDash)
           /\ Len(parts[n]) >= 2 /\ AllOf(parts[n], IsLetter)

validateEmail(email) ==
    \E k \in 1..Len(email) :
        /\ email[k] = "@"
        /\ emailLocalOk(SubSeq(email, 1, k - 1))
        /\ emailDomainOk(SubSeq(email, k + 1, Len(email)))

emailButton(email) ==
    [icon |-> "email",
     text |-> <<"Email">>,
     title |-> <<"Email ">> \o email,
     target |-> <<"mailto:">> \o email]

\* warn without the header row: line + 1
warnOffByOne(value, type, line) == [row |-> line + 1, value |-> value, type |-> type]

\* warn(value, type, line): the three parts of the console line
warn(value, type, line) == [row |-> line + 2, value |-> value, type |-> type]


\* --------------------------------------------------------------- times
\* moment's parse of one expression under the format 'dddd h:mm a': the weekday
\* and the minute of the day it denotes, day 0 for an expression it rejects.
\* The parse ignores letter case, so two expressions can denote one time.
momentParse(timestring) ==
    IF Len(timestring) # 1 THEN [day |-> 0, minute |-> 0]
    ELSE CASE timestring[1] = "Monday 7:00 pm" -> [day |-> 1, minute |-> 19 * 60]
           [] timestring[1] = "monday 7:00 PM" -> [day |-> 1, minute |-> 19 * 60]
           [] timestring[1] = "Tuesday 9:30 am" -> [day |-> 2, minute |-> 9 * 60 + 30]
           [] OTHER -> [day |-> 0, minute |-> 0]

\* time.isValid()
isValid(timestring) == momentParse(timestring).day # 0

\* moment.tz(timestring, 'dddd h:mm a', timezone)
momentTz(timestring, timezone) ==
    [day |-> momentParse(timestring).day,
     minute |-> momentParse(timestring).minute,
     zone |-> timezone]

\* ---------------------------------------------------------------- tags
\* UTF-16 code units of the characters tags are written with
CodeUnit(c) ==
    CASE c = "A" -> 65
      [] c = "B" -> 66
      [] c = "a" -> 97
      [] c = "b" -> 98
      [] OTHER -> 0

\* the default comparison of Array.prototype.sort: by code units, a proper
\* prefix first
RECURSIVE StrLess(_, _)
StrLess(x, y) ==
    IF y = <<>> THEN FALSE
    ELSE IF x = <<>> THEN TRUE
    ELSE IF CodeUnit(Head(x)) # CodeUnit(Head(y))
         THEN CodeUnit(Head(x)) < CodeUnit(Head(y))
         ELSE StrLess(Tail(x), Tail(y))

RECURSIVE insertSorted(_, _)
insertSorted(q, v) ==
    IF q = <<>> THEN <<v>>
    ELSE IF StrLess(v, Head(q)) THEN <<v>> \o q
    ELSE <<Head(q)>> \o insertSorted(Tail(q), v)

RECURSIVE sortAll(_)
sortAll(q) ==
    IF q = <<>> THEN <<>> ELSE insertSorted(sortAll(Tail(q)), Head(q))

\* load without formats.sort() and types.sort()
sortNone(array) == array

\* array.sort()
sort(array) == sortAll(array)

\* tokens.forEach(t => { if (!acc.includes(t)) acc.push(t) })
RECURSIVE pushNew(_, _)
pushNew(acc, tokens) ==
    IF tokens = <<>> THEN acc
    ELSE pushNew(IF includes(acc, Head(tokens)) THEN acc ELSE Append(acc, Head(tokens)),
                 Tail(tokens))

\* arrayToTagsArray(array, values)
arrayToTagsArray(array, values) ==
    [k \in 1..Len(array) |-> [tag |-> array[k], checked |-> includes(values, array[k])]]

\* config.days: the fixed vocabulary of day names
days ==
    << <<"Sunday">>, <<"Monday">>, <<"Tuesday">>, <<"Wednesday">>,
       <<"Thursday">>, <<"Friday">>, <<"Saturday">> >>

\* ---------------------------------------------------------------- rows
\* the fields of an entry in the order load reads them
FieldOrder ==
    <<"name", "notes", "updated", "url", "phone", "accesscode", "email",
      "formats", "types", "timezone", "times">>

Pos(f) == CHOOSE k \in 1..Len(FieldOrder) : FieldOrder[k] = f

originalUrl(row) == trim(row.url)
originalPhone(row) == trim(row.phone)
accessCode(row) == trim(row.accesscode)
emailOf(row) == trim(row.email)
\* the timezone passed on without .trim()
timezoneUntrimmed(row) == row.timezone
timezoneOf(row) == trim(row.timezone)
meeting_formats(row) == stringToTrimmedArray(row.formats, ",")
meeting_types(row) == stringToTrimmedArray(row.types, ",")
timesOf(row) == stringToTrimmedArray(row.times, "\n")

\* whether load reads field f of the row at all: the access code is read only
\* for a phone number it accepts
Accessed(row, f) ==
    f = "accesscode" => (originalPhone(row) # <<>> /\ phoneAccepted(originalPhone(row)))

\* position in FieldOrder of the first read that throws a TypeError (the entry
\* lacks the field), 0 when every read succeeds
ThrowPos(row) ==
    LET bad == {k \in 1..Len(FieldOrder) :
                   FieldOrder[k] \in row.absent /\ Accessed(row, FieldOrder[k])}
    IN  IF bad = {} THEN 0 ELSE CHOOSE k \in bad : \A j \in bad : k <= j

\* the read of field f happens and succeeds
Reads(row, f) == ThrowPos(row) = 0 \/ Pos(f) < ThrowPos(row)

urlButtons(row) ==
    IF originalUrl(row) # <<>> /\ urlParses(originalUrl(row))
    THEN <<urlButton(originalUrl(row))>> ELSE <<>>

urlWarnings(row, idx) ==
    IF Reads(row, "url") /\ originalUrl(row) # <<>> /\ ~urlParses(originalUrl(row))
    THEN <<warn(originalUrl(row), "URL", idx)>> ELSE <<>>

phoneButtons(row) ==
    IF originalPhone(row) # <<>> /\ phoneAccepted(originalPhone(row))
    THEN <<phoneButton(originalPhone(row), accessCode(row))>> ELSE <<>>

phoneWarnings(row, idx) ==
    IF Reads(row, "phone") /\ originalPhone(row) # <<>> /\ ~phoneAccepted(originalPhone(row))
    THEN <<warn(originalPhone(row), "phone number", idx)>> ELSE <<>>

\* the email button pushed without validateEmail
emailButtonsUnvalidated(row) ==
    IF trim(row.email) # <<>> THEN <<emailButton(trim(row.email))>> ELSE <<>>

emailButtons(row) ==
    IF emailOf(row) # <<>> /\ validateEmail(emailOf(row))
    THEN <<emailButton(emailOf(row))>> ELSE <<>>

emailWarnings(row, idx) ==
    IF Reads(row, "email") /\ emailOf(row) # <<>> /\ ~validateEmail(emailOf(row))
    THEN <<warn(emailOf(row), "email address", idx)>> ELSE <<>>

timeWarnings(row, idx) ==
    IF Reads(row, "times")
    THEN MapSeq(LAMBDA t : warn(t, "time", idx),
                SelectSeq(timesOf(row), LAMBDA t : ~isValid(t)))
    ELSE <<>>

\* the console lines of one iteration, up to the read that throws if one does
rowWarnings(row, idx) ==
    urlWarnings(row, idx) \o phoneWarnings(row, idx)
        \o emailWarnings(row, idx) \o timeWarnings(row, idx)

\* the meeting object without the second concat: tags hold the formats only
meetingOfFormatsOnly(row) ==
    [name |-> trim(row.name),
     buttons |-> urlButtons(row) \o phoneButtons(row) \o emailButtons(row),
     notes |-> stringToTrimmedArray(row.notes, "\n"),
     updated |-> row.updated,
     search |-> searchIndex(trim(row.name)),
     tags |-> meeting_formats(row)]

\* the meeting object of one iteration, all fields read
meetingOf(row) ==
    [name |-> trim(row.name),
     buttons |-> urlButtons(row) \o phoneButtons(row) \o emailButtons(row),
     notes |-> stringToTrimmedArray(row.notes, "\n"),
     updated |-> row.updated,
     search |-> searchIndex(trim(row.name)),
     tags |-> meeting_formats(row) \o meeting_types(row)]

\* { ...meeting, time }
withTime(m, time) ==
    [name |-> m.name, buttons |-> m.buttons, notes |-> m.notes,
     updated |-> m.updated, search |-> m.search, tags |-> m.tags, time |-> time]

\* the loop with the ongoing branch taken whenever no expression is valid
rowMeetingsOngoingFallback(row) ==
    IF SelectSeq(stringToTrimmedArray(row.times, "\n"), isValid) # <<>>
    THEN MapSeq(LAMBDA t : withTime(meetingOf(row), momentTz(t, trim(row.timezone))),
                SelectSeq(stringToTrimmedArray(row.times, "\n"), isValid))
    ELSE <<meetingOf(row)>>

\* what one iteration pushes onto meetings
rowMeetings(row) ==
    IF Len(timesOf(row)) # 0
    THEN MapSeq(LAMBDA t : withTime(meetingOf(row), momentTz(t, timezoneOf(row))),
                SelectSeq(timesOf(row), isValid))
    ELSE <<meetingOf(row)>>


\* -------------------------------------------------------- query string
\* decodeURIComponent throws a URIError on a "%" that starts no escape
decodeThrows(v) == \E k \in 1..Len(v) : v[k] = "%"

decodeAtom(c) == IF c = "%61" THEN "a" ELSE c

decodeURIComponent(v) == MapSeq(decodeAtom, v)

\* window.location.search.substr(1).split('&')
queryPairs(search) == split(SubSeq(search, 2, Len(search)), "&")

\* const [key, value] = pair.split('='): value is undefined without an "="
pairHasValue(pair) == Len(split(pair, "=")) >= 2
pairKey(pair) == split(pair, "=")[1]
pairValues(pair) == split(split(pair, "=")[2], ",")

\* the query loop throws: value.split on undefined, or a malformed escape
queryThrows(search) ==
    /\ Len(search) > 1
    /\ \E k \in 1..Len(queryPairs(search)) :
          IF pairHasValue(queryPairs(search)[k])
          THEN \E j \in 1..Len(pairValues(queryPairs(search)[k])) :
                  decodeThrows(pairValues(queryPairs(search)[k])[j])
          ELSE TRUE

\* query[key] || []: the last pair with that key wins
queryGet(search, key) ==
    LET pairs == queryPairs(search)
        hits == IF Len(search) > 1
                THEN {k \in 1..Len(pairs) : pairKey(pairs[k]) = <<key>>}
                ELSE {}
    IN  IF hits = {} THEN <<>>
        ELSE MapSeq(decodeURIComponent,
                    pairValues(pairs[CHOOSE k \in hits : \A j \in hits : j <= k]))

\* ------------------------------------------------------- the program
VARIABLES
    calls,            \* the invocations of load in flight
    data,             \* data[c].feed.entry of invocation c
    locationSearch,   \* window.location.search
    pc,               \* where invocation c stands: "loop", "done", "threw"
    i,                \* the loop index of invocation c
    meetings,         \* the accumulator const meetings
    formats,          \* the accumulator let formats
    types,            \* the accumulator let types
    origin,           \* for each pushed meeting, the index of its row
    console,          \* the lines invocation c has written with console.warn
    result            \* <<State>> once invocation c has returned

vars == <<calls, data, locationSearch, pc, i, meetings, formats, types,
          origin, console, result>>

\* the accumulators declared at module level: one set for every invocation
ScopeShared(c) == 1

\* the accumulators are declared inside load: each invocation has its own
Scope(c) == c

\* the row at the loop index
entry(c) == data[c][i[c] + 1]

\* one iteration of the for loop over an entry that has every field it reads
LoadRow(c) ==
    /\ pc[c] = "loop"
    /\ i[c] < Len(data[c])
    /\ ThrowPos(entry(c)) = 0
    /\ meetings' = [meetings EXCEPT ![Scope(c)] = @ \o rowMeetings(entry(c))]
    /\ origin' = [origin EXCEPT ![Scope(c)] =
                     @ \o [k \in 1..Len(rowMeetings(entry(c))) |-> i[c]]]
    /\ formats' = [formats EXCEPT ![Scope(c)] = pushNew(@, meeting_formats(entry(c)))]
    /\ types' = [types EXCEPT ![Scope(c)] = pushNew(@, meeting_types(entry(c)))]
    /\ console' = [console EXCEPT ![c] = @ \o rowWarnings(entry(c), i[c])]
    /\ i' = [i EXCEPT ![c] = @ + 1]
    /\ UNCHANGED <<calls, data, locationSearch, pc, result>>

\* an iteration over an entry that lacks a field: the read throws a TypeError
\* that nothing catches, and load ends without a State
LoadRowThrows(c) ==
    /\ pc[c] = "loop"
    /\ i[c] < Len(data[c])
    /\ ThrowPos(entry(c)) # 0
    /\ formats' = [formats EXCEPT ![Scope(c)] =
                      IF Reads(entry(c), "formats")
                      THEN pushNew(@, meeting_formats(entry(c))) ELSE @]
    /\ types' = [types EXCEPT ![Scope(c)] =
                    IF Reads(entry(c), "types")
                    THEN pushNew(@, meeting_types(entry(c))) ELSE @]
    /\ console' = [console EXCEPT ![c] = @ \o rowWarnings(entry(c), i[c])]
    /\ pc' = [pc EXCEPT ![c] = "threw"]
    /\ UNCHANGED <<calls, data, locationSearch, i, meetings, origin, result>>

\* the State load returns.  Its limit (config.meetingsPerPage) and timezone
\* (moment.tz.guess()) are fixed by the configuration and the environment, not
\* by the feed, and are left out.
stateOf(c, search) ==
    [filters |-> [days |-> arrayToTagsArray(days, queryGet(search, "days")),
                  formats |-> arrayToTagsArray(sort(formats[Scope(c)]),
                                               queryGet(search, "formats")),
                  types |-> arrayToTagsArray(sort(types[Scope(c)]),
                                             queryGet(search, "types"))],
     loading |-> FALSE,
     meetings |-> meetings[Scope(c)],
     search |-> <<>>]

\* after the loop: sort the vocabularies, read the query string, return
LoadReturn(c) ==
    /\ pc[c] = "loop"
    /\ i[c] = Len(data[c])
    /\ ~queryThrows(locationSearch)
    /\ formats' = [formats EXCEPT ![Scope(c)] = sort(@)]
    /\ types' = [types EXCEPT ![Scope(c)] = sort(@)]
    /\ result' = [result EXCEPT ![c] = <<stateOf(c, locationSearch)>>]
    /\ pc' = [pc EXCEPT ![c] = "done"]
    /\ UNCHANGED <<calls, data, locationSearch, i, meetings, origin, console>>

\* after the loop: the query loop throws, and load ends without a State
LoadQueryThrows(c) ==
    /\ pc[c] = "loop"
    /\ i[c] = Len(data[c])
    /\ queryThrows(locationSearch)
    /\ formats' = [formats EXCEPT ![Scope(c)] = sort(@)]
    /\ types' = [types EXCEPT ![Scope(c)] = sort(@)]
    /\ pc' = [pc EXCEPT ![c] = "threw"]
    /\ UNCHANGED <<calls, data, locationSearch, i, meetings, origin, console, result>>

Next ==
    \/ \E c \in calls : LoadRow(c)
    \/ \E c \in calls : LoadRowThrows(c)
    \/ \E c \in calls : LoadReturn(c)
    \/ \E c \in calls : LoadQueryThrows(c)


\* ------------------------------------------------------------ inputs
\* every string of at most n atoms over an alphabet
StringsUpTo(alphabet, n) == UNION {[1..k -> alphabet] : k \in 0..n}

\* an entry with every field present and nothing to classify
BaseRow ==
    [name |-> <<"a">>, notes |-> <<>>, updated |-> <<"2020-04-01">>,
     url |-> <<>>, phone |-> <<>>, accesscode |-> <<>>, email |-> <<>>,
     formats |-> <<>>, types |-> <<>>, timezone |-> <<"Europe/Rome">>,
     times |-> <<>>, absent |-> {}]

\* names: every string over letters of both cases, the space and the tab
NameRows ==
    {[BaseRow EXCEPT !.name = n] : n \in StringsUpTo({"a", "B", " ", "\t"}, MaxNameLen)}

\* phone numbers of 0..MaxDigits digits, bare and punctuated
DigitRun(n) == [k \in 1..n |-> IF k % 2 = 1 THEN "5" ELSE "0"]
Punctuated(n) ==
    <<" ", "+">> \o SubSeq(DigitRun(n), 1, 3) \o <<"-">> \o SubSeq(DigitRun(n), 4, n) \o <<" ">>
PhoneValues ==
    {DigitRun(n) : n \in 0..MaxDigits} \cup {Punctuated(n) : n \in 3..MaxDigits}
        \cup {<<" ">>, <<"-", "-">>}
AccessCodes == {<<>>, <<" ">>, <<"9", "8">>, <<" ", "4", "#">>}
PhoneRows ==
    {[BaseRow EXCEPT !.phone = p, !.accesscode = a] : p \in PhoneValues, a \in AccessCodes}

UrlValues ==
    {<<>>,
     <<"https", ":", "/", "/", "zoom", ".", "us", "/", "j">>,
     <<" ", "https", ":", "/", "/", "www", ".", "aa", ".", "it", " ">>,
     <<"mailto", ":", "a", "@", "b">>,
     <<"n", "o", "t", " ", "a", " ", "u", "r", "l">>,
     <<"https", ":", "/", "/">>,
     <<"www", ".", "aa", ".", "it">>}
EmailValues ==
    {<<>>,
     <<"a", "@", "b", ".", "c", "o", "m">>,
     <<" ", "a", ".", "b", "@", "c", "-", "1", ".", "c", "o", "m", " ">>,
     <<"\"", "a", " ", "b", "\"", "@", "b", ".", "c", "o">>,
     <<"a", "@", "[", "1", ".", "2", ".", "3", ".", "4", "]">>,
     <<"n", "o", "t", "-", "a", "n", "-", "e", "m", "a", "i", "l">>,
     <<"a", "@", "b">>,
     <<"a", "@", "b", ".", "c">>,
     <<".", "a", "@", "b", ".", "c", "o">>,
     <<"a", " ", "b", "@", "b", ".", "c", "o">>}
ChannelPhones == {<<>>, DigitRun(9), <<"5", "5", "5", "-", "1", "2", "3", "4">>}
ChannelEmails ==
    {<<>>, <<"a", "@", "b", ".", "c", "o", "m">>, <<"a", "@", "b">>}
ChannelRows ==
    {[BaseRow EXCEPT !.url = u, !.phone = p, !.email = e] :
        u \in UrlValues, p \in ChannelPhones, e \in ChannelEmails}
        \cup {[BaseRow EXCEPT !.email = e] : e \in EmailValues}

\* times: up to MaxTimes expressions, one per line, tidy or with blank lines
\* and spaces around them
TimeExpressions ==
    {"Monday 7:00 pm", "monday 7:00 PM", "Tuesday 9:30 am", "whenever"}
RECURSIVE linesOf(_, _)
linesOf(list, tidy) ==
    IF list = <<>> THEN <<>>
    ELSE (IF tidy THEN <<Head(list)>> ELSE <<" ", Head(list), " ", "\n">>)
         \o (IF Tail(list) = <<>> THEN <<>> ELSE <<"\n">>)
         \o linesOf(Tail(list), tidy)
TimesValues ==
    {linesOf(l, t) : l \in StringsUpTo(TimeExpressions, MaxTimes), t \in BOOLEAN}
        \cup {<<" ", "\n", " ">>}
TimezoneValues == {<<"Europe/Rome">>, <<" ", "America/New_York">>}
TimeRows ==
    {[BaseRow EXCEPT !.times = t, !.timezone = z] : t \in TimesValues, z \in TimezoneValues}

\* formats and types: up to MaxTags tokens, comma separated
TagTokens == {<<"a">>, <<"B">>, <<"a", "b">>}
RECURSIVE listOf(_, _)
listOf(list, tidy) ==
    IF list = <<>> THEN <<>>
    ELSE Head(list)
         \o (IF Tail(list) = <<>> THEN (IF tidy THEN <<>> ELSE <<",", " ">>)
             ELSE (IF tidy THEN <<",">> ELSE <<" ", ",", " ">>))
         \o listOf(Tail(list), tidy)
FormatsValues ==
    {listOf(l, t) : l \in StringsUpTo(TagTokens, MaxTags), t \in BOOLEAN}
TypesValues == {<<>>, <<"a">>, <<"b", ",", " ", "a">>, <<"B", ",", "B">>}
TagRows ==
    {[BaseRow EXCEPT !.formats = f, !.types = t] : f \in FormatsValues, t \in TypesValues}

\* an entry with something to report in every field, which lacks one field
RichRow ==
    [name |-> <<" ", "B", " ", " ", "a">>, notes |-> <<"a", "\n", " ", "b">>,
     updated |-> <<"2020-04-01">>,
     url |-> <<"www", ".", "aa", ".", "it">>, phone |-> <<"5", "5", "5">>,
     accesscode |-> <<"9">>, email |-> <<"a", "@", "b">>,
     formats |-> <<"b">>, types |-> <<"B">>, timezone |-> <<"Europe/Rome">>,
     times |-> <<"whenever", "\n", "Monday 7:00 pm">>, absent |-> {}]
AbsentRows ==
    {[RichRow EXCEPT !.absent = {FieldOrder[k]}] : k \in 1..Len(FieldOrder)}
        \cup {[RichRow EXCEPT !.absent = {"accesscode"}, !.phone = DigitRun(9)],
              [RichRow EXCEPT !.absent = {"url", "times"}]}

\* the row put around the row under study: it has a malformed url, tags of its
\* own and one valid time expression
ContextRow ==
    [BaseRow EXCEPT !.name = <<"B", " ", "a">>, !.url = <<"a", " ", "b">>,
                    !.formats = <<"b", ",", "a">>, !.types = <<"a">>,
                    !.times = <<"Tuesday 9:30 am">>]

\* the feeds of at most MaxRows rows that hold row r among context rows
FeedsAround(r) ==
    UNION {{[k \in 1..n |-> IF k = p THEN r ELSE ContextRow] : p \in 1..n} :
              n \in 1..MaxRows}

FeedsOf(rows) == UNION {FeedsAround(r) : r \in rows}

QueryValues ==
    {<<>>,
     <<"?">>,
     <<"?", "formats", "=", "a", ",", "B">>,
     <<"?", "formats", "=", "%61", "b", "&", "types", "=", "b", ",", "a">>,
     <<"?", "formats", "=", "a", "&", "formats", "=", "B">>,
     <<"?", "days", "=", "Monday", ",", "a", "&", "x", "=", "a">>,
     <<"?", "formats">>,
     <<"?", "types", "=", "a", "&">>,
     <<"?", "formats", "=", "a", ",", "%">>}

\* two loads in flight at once, each on a feed of its own
ConcurrentRows ==
    {[BaseRow EXCEPT !.formats = <<"a">>, !.times = <<"Monday 7:00 pm">>],
     [BaseRow EXCEPT !.name = <<"B">>, !.formats = <<"B", ",", "a">>,
                     !.types = <<"b">>, !.phone = <<"5">>],
     [BaseRow EXCEPT !.absent = {"email"}]}
ConcurrentFeeds == StringsUpTo(ConcurrentRows, MaxRows)

Inputs ==
    {[calls |-> {1}, data |-> [c \in {1} |-> f], search |-> <<>>] :
        f \in {<<>>} \cup {<<r>> : r \in NameRows}
                \cup FeedsOf(PhoneRows \cup ChannelRows \cup TimeRows \cup AbsentRows)}
    \cup {[calls |-> {1}, data |-> [c \in {1} |-> f], search |-> q] :
            f \in FeedsOf(TagRows), q \in QueryValues}
    \cup {[calls |-> {1, 2}, data |-> d, search |-> q] :
            d \in [{1, 2} -> ConcurrentFeeds],
            q \in {<<>>, <<"?", "formats", "=", "a">>}}

Init ==
    \E input \in Inputs :
        /\ calls = input.calls
        /\ data = input.data
        /\ locationSearch = input.search
        /\ pc = [c \in input.calls |-> "loop"]
        /\ i = [c \in input.calls |-> 0]
        /\ meetings = [c \in input.calls |-> <<>>]
        /\ formats = [c \in input.calls |-> <<>>]
        /\ types = [c \in input.calls |-> <<>>]
        /\ origin = [c \in input.calls |-> <<>>]
        /\ console = [c \in input.calls |-> <<>>]
        /\ result = [c \in input.calls |-> <<>>]

Spec == Init /\ [][Next]_vars


\* ------------------------------------------------- reading the state
\* the rows whose iteration load has completed
Processed(c) == 0..(i[c] - 1)

RowAt(c, r) == data[c][r + 1]

\* the meeting list of invocation c: State.meetings once it has returned
Produced(c) == IF pc[c] = "done" THEN result[c][1].meetings ELSE meetings[c]

RECURSIVE FilterByOrigin(_, _, _)
FilterByOrigin(ms, os, r) ==
    IF ms = <<>> \/ os = <<>> THEN <<>>
    ELSE (IF Head(os) = r THEN <<Head(ms)>> ELSE <<>>)
         \o FilterByOrigin(Tail(ms), Tail(os), r)

\* the Meeting records of row r, in the order of the list
RecordsOf(c, r) == FilterByOrigin(Produced(c), origin[c], r)

HasTime(m) == "time" \in DOMAIN m

\* the non-empty expressions of the times field, and the valid ones among them
Expressions(row) == SelectSeq(MapSeq(trim, split(row.times, "\n")), NonEmpty)
ValidExpressions(row) == SelectSeq(Expressions(row), isValid)

\* m and n agree on every field but time
SameButTime(m, n) ==
    /\ m.name = n.name /\ m.buttons = n.buttons /\ m.notes = n.notes
    /\ m.updated = n.updated /\ m.search = n.search /\ m.tags = n.tags

Count(q, v) == Cardinality({k \in 1..Len(q) : q[k] = v})


\* ------------------------------------------------------------- claims

C2_KValidTimesGiveKDistinctMeetings ==
    \A c \in calls : \A r \in Processed(c) :
        LET row == RowAt(c, r)
            valid == ValidExpressions(row)
            recs == RecordsOf(c, r)
        IN  (pc[c] = "done" /\ Len(valid) >= 1) =>
              /\ Len(recs) = Len(valid)
              /\ \A k \in 1..Len(recs) :
                    /\ HasTime(recs[k])
                    /\ recs[k].time.day = momentParse(valid[k]).day
                    /\ recs[k].time.minute = momentParse(valid[k]).minute
                    /\ recs[k].time.zone = trim(row.timezone)
              /\ \A j, k \in 1..Len(recs) : SameButTime(recs[j], recs[k])
              /\ \A j, k \in 1..Len(recs) : (j # k) => (recs[j].time # recs[k].time)

\* C2, amended: a processed row with K >= 1 valid time expressions has exactly
\* K Meetings, in the order of the expressions, alike in every field but time,
\* each time in the row's declared timezone; two of them carry the same time
\* exactly when their expressions denote the same weekday and time of day.
C2_KValidTimesGiveKMeetings ==
    \A c \in calls : \A r \in Processed(c) :
        LET row == RowAt(c, r)
            valid == ValidExpressions(row)
            recs == RecordsOf(c, r)
        IN  (Len(valid) >= 1) =>
              /\ Len(recs) = Len(valid)
              /\ \A k \in 1..Len(recs) :
                    /\ HasTime(recs[k])
                    /\ recs[k].time.day = momentParse(valid[k]).day
                    /\ recs[k].time.minute = momentParse(valid[k]).minute
                    /\ recs[k].time.zone = trim(row.timezone)
              /\ \A j, k \in 1..Len(recs) : SameButTime(recs[j], recs[k])
              /\ \A j, k \in 1..Len(recs) :
                    (recs[j].time = recs[k].time)
                        <=> (momentParse(valid[j]) = momentParse(valid[k]))

\* load has returned a State in which a row with an invalid expression among
\* valid ones, in a timezone written with spaces around it, has one Meeting for
\* each valid expression, the first two at the same time
C2_Witness ==
    \E c \in calls : \E r \in Processed(c) :
        /\ pc[c] = "done"
        /\ Len(Expressions(RowAt(c, r))) > Len(ValidExpressions(RowAt(c, r)))
        /\ Len(ValidExpressions(RowAt(c, r))) >= 2
        /\ RowAt(c, r).timezone # trim(RowAt(c, r).timezone)
        /\ Len(RecordsOf(c, r)) = Len(ValidExpressions(RowAt(c, r)))
        /\ RecordsOf(c, r)[1].time = RecordsOf(c, r)[2].time

\* C3, as stated: no run of load ends in an error; the State it returns holds
\* no Meeting of a row that lacks a field it reads and every Meeting of every
\* other row.
C3_NoErrorIsFatal ==
    \A c \in calls :
        /\ pc[c] # "threw"
        /\ (pc[c] = "done") =>
              \A r \in 0..(Len(data[c]) - 1) :
                  RecordsOf(c, r) =
                      IF ThrowPos(RowAt(c, r)) # 0 THEN <<>> ELSE rowMeetings(RowAt(c, r))


\* the distinct tokens of one comma-separated field over every row of a feed
TokensOfFeed(feed, field) ==
    UNION {Range(stringToTrimmedArray(feed[r][field], ",")) : r \in 1..Len(feed)}

\* the values the query string preselects for a category
Preselection(category) == Range(queryGet(locationSearch, category))

\* a Tag list holds exactly the tags of a set, each once, and checks the
\* preselected ones
TagsCover(tags, vocabulary, preselected) ==
    /\ {tags[k].tag : k \in 1..Len(tags)} = vocabulary
    /\ \A j, k \in 1..Len(tags) : (j # k) => (tags[j].tag # tags[k].tag)
    /\ \A k \in 1..Len(tags) : tags[k].checked <=> (tags[k].tag \in preselected)

\* C4: in the State load returns, the formats and types vocabularies hold
\* exactly the distinct tokens of that field over all rows, each once, in
\* ascending order by code units; in days, formats and types a Tag is checked
\* exactly when its tag is among the values the query string preselects for
\* that category, and a preselected value outside the vocabulary adds no Tag.
C4_VocabulariesSortedUniqueChecked ==
    \A c \in calls :
        (pc[c] = "done") =>
            LET filters == result[c][1].filters
            IN  /\ TagsCover(filters.formats, TokensOfFeed(data[c], "formats"),
                             Preselection("formats"))
                /\ TagsCover(filters.types, TokensOfFeed(data[c], "types"),
                             Preselection("types"))
                /\ TagsCover(filters.days, Range(days), Preselection("days"))
                /\ \A j, k \in 1..Len(filters.formats) :
                      (j < k) => StrLess(filters.formats[j].tag, filters.formats[k].tag)
                /\ \A j, k \in 1..Len(filters.types) :
                      (j < k) => StrLess(filters.types[j].tag, filters.types[k].tag)
                /\ \A k \in 1..Len(filters.days) : filters.days[k].tag = days[k]

\* a State whose formats vocabulary was gathered from two rows in an order
\* that is not the sorted one, with a checked Tag, an unchecked Tag and a
\* preselected value that is no Tag
C4_Witness ==
    \E c \in calls :
        /\ pc[c] = "done"
        /\ Len(data[c]) >= 2
        /\ Len(result[c][1].filters.formats) >= 3
        /\ \E j, k \in 1..Len(meetings[c]) : j < k /\ meetings[c][j].tags # <<>>
              /\ meetings[c][k].tags # <<>>
              /\ StrLess(meetings[c][k].tags[1], meetings[c][j].tags[1])
        /\ \E j, k \in 1..Len(result[c][1].filters.formats) :
              /\ result[c][1].filters.formats[j].checked
              /\ ~result[c][1].filters.formats[k].checked
        /\ \E v \in Preselection("formats") : v \notin TokensOfFeed(data[c], "formats")

\* what load returns for a feed when it runs alone: the rows folded in order
RECURSIVE aloneMeetings(_)
aloneMeetings(feed) ==
    IF feed = <<>> THEN <<>> ELSE rowMeetings(Head(feed)) \o aloneMeetings(Tail(feed))

RECURSIVE aloneTokens(_, _, _)
aloneTokens(feed, field, acc) ==
    IF feed = <<>> THEN acc
    ELSE aloneTokens(Tail(feed), field,
                     pushNew(acc, stringToTrimmedArray(Head(feed)[field], ",")))

aloneThrows(feed, search) ==
    \/ \E r \in 1..Len(feed) : ThrowPos(feed[r]) # 0
    \/ queryThrows(search)

aloneState(feed, search) ==
    [filters |->
        [days |-> arrayToTagsArray(days, queryGet(search, "days")),
         formats |-> arrayToTagsArray(sort(aloneTokens(feed, "formats", <<>>)),
                                      queryGet(search, "formats")),
         types |-> arrayToTagsArray(sort(aloneTokens(feed, "types", <<>>)),
                                    queryGet(search, "types"))],
     loading |-> FALSE,
     meetings |-> aloneMeetings(feed),
     search |-> <<>>]

\* C5: whatever the order in which the steps of two loads are interleaved, a
\* load that returns returns the State it returns when it runs alone on its
\* feed, and a load ends in an error only if it does so when it runs alone.
C5_ConcurrentLoadsIndependent ==
    \A c \in calls :
        /\ (pc[c] = "done") =>
              /\ ~aloneThrows(data[c], locationSearch)
              /\ result[c][1] = aloneState(data[c], locationSearch)
        /\ (pc[c] = "threw") => aloneThrows(data[c], locationSearch)

\* two loads on different feeds: the first has returned while the second was
\* past its first row and short of its last, and both hold meetings and tags
C5_Witness ==
    /\ calls = {1, 2}
    /\ data[1] # data[2]
    /\ pc[1] = "done"
    /\ pc[2] = "loop"
    /\ i[2] >= 1
    /\ i[2] < Len(data[2])
    /\ meetings[2] # <<>>
    /\ formats[2] # <<>>
    /\ result[1][1].meetings # <<>>
    /\ result[1][1].filters.formats # <<>>
    /\ formats[1] # formats[2]


\* the buttons of a Meeting for one channel
ButtonsWithIcon(m, icons) == SelectSeq(m.buttons, LAMBDA b : b.icon \in icons)

\* C6: for every processed row whose phone value is not empty once trimmed, with
\* D the value without its non-digit characters: if D has more than 8 digits,
\* every Meeting of the row has exactly one phone button, which dials D when
\* the trimmed access code is empty and D, two commas and the access code when
\* it is not, and no warning is written; if D has 8 digits or fewer, no Meeting
\* of the row has a phone button and exactly one warning is written.
C6_PhoneButtonFromNineDigits ==
    \A c \in calls : \A r \in Processed(c) :
        LET row == RowAt(c, r)
            value == trim(row.phone)
            D == SelectSeq(value, IsDigit)
            code == trim(row.accesscode)
            recs == RecordsOf(c, r)
            line == [row |-> r + 2, value |-> value, type |-> "phone number"]
        IN  (value # <<>>) =>
              IF Len(D) > 8
              THEN /\ \A k \in 1..Len(recs) :
                         /\ Len(ButtonsWithIcon(recs[k], {"phone"})) = 1
                         /\ ButtonsWithIcon(recs[k], {"phone"})[1].target =
                               <<"tel:">> \o
                               (IF code = <<>> THEN D ELSE D \o <<",", ",">> \o code)
                   /\ Count(console[c], line) = 0
              ELSE /\ \A k \in 1..Len(recs) : ButtonsWithIcon(recs[k], {"phone"}) = <<>>
                   /\ Count(console[c], line) = 1

\* a punctuated phone number of exactly 9 digits with an access code has its
\* button, on a Meeting of a State load has returned
C6_Witness ==
    \E c \in calls : \E r \in Processed(c) :
        /\ pc[c] = "done"
        /\ Len(SelectSeq(trim(RowAt(c, r).phone), IsDigit)) = 9
        /\ Len(trim(RowAt(c, r).phone)) > 9
        /\ trim(RowAt(c, r).accesscode) # <<>>
        /\ RecordsOf(c, r) # <<>>
        /\ ButtonsWithIcon(RecordsOf(c, r)[1], {"phone"}) # <<>>

\* C7, as stated: the tags of every Meeting hold no token twice and, as a set,
\* are the row's format tokens together with its type tokens.
C7_TagsAreASet ==
    \A c \in calls : \A r \in Processed(c) :
        \A k \in 1..Len(RecordsOf(c, r)) :
            LET tags == RecordsOf(c, r)[k].tags
            IN  /\ \A t \in Range(tags) : Count(tags, t) = 1
                /\ Range(tags) = TokensOfFeed(<<RowAt(c, r)>>, "formats")
                                    \cup TokensOfFeed(<<RowAt(c, r)>>, "types")

\* C7, amended: the tags of every Meeting are the row's format tokens followed
\* by its type tokens: as a set, the union of the two, with no token of another
\* row; a token that the row names n times over the two fields is held n times.
C7_TagsAreFormatsThenTypes ==
    \A c \in calls : \A r \in Processed(c) :
        \A k \in 1..Len(RecordsOf(c, r)) :
            LET tags == RecordsOf(c, r)[k].tags
                own == SelectSeq(MapSeq(trim, split(RowAt(c, r).formats, ",")), NonEmpty)
                          \o SelectSeq(MapSeq(trim, split(RowAt(c, r).types, ",")), NonEmpty)
            IN  /\ tags = own
                /\ Range(tags) = TokensOfFeed(<<RowAt(c, r)>>, "formats")
                                    \cup TokensOfFeed(<<RowAt(c, r)>>, "types")
                /\ \A t \in Range(tags) : Count(tags, t) = Count(own, t)

\* a Meeting of a returned State holds a token twice, once from formats and once
\* from types, beside a row with other tokens
C7_Witness ==
    \E c \in calls : \E r \in Processed(c) : \E q \in Processed(c) :
        /\ pc[c] = "done"
        /\ RecordsOf(c, r) # <<>>
        /\ \E t \in TokensOfFeed(<<RowAt(c, r)>>, "formats")
                      \cap TokensOfFeed(<<RowAt(c, r)>>, "types") :
              Count(RecordsOf(c, r)[1].tags, t) = 2
        /\ TokensOfFeed(<<RowAt(c, q)>>, "formats")
              \ Range(RecordsOf(c, r)[1].tags) # {}

\* the channel a button belongs to
Channel(b) == IF b.icon \in {"link", "video"} THEN "url" ELSE b.icon

\* the channels whose trimmed value is not empty and valid, in the order url,
\* phone, email
ValidChannels(row) ==
    (IF trim(row.url) # <<>> /\ urlParses(trim(row.url)) THEN <<"url">> ELSE <<>>)
    \o (IF trim(row.phone) # <<>> /\ Len(SelectSeq(trim(row.phone), IsDigit)) > 8
        THEN <<"phone">> ELSE <<>>)
    \o (IF trim(row.email) # <<>> /\ validateEmail(trim(row.email))
        THEN <<"email">> ELSE <<>>)

\* C8: the buttons of every Meeting are at most 3, one for each channel whose
\* trimmed value is not empty and valid and none for any other, in the order
\* url, phone, email; a row is not rejected for a malformed value: a processed
\* row without time expressions has its Meeting whatever its channels hold.
C8_ButtonsPerValidChannelInOrder ==
    \A c \in calls : \A r \in Processed(c) :
        /\ \A k \in 1..Len(RecordsOf(c, r)) :
              /\ Len(RecordsOf(c, r)[k].buttons) <= 3
              /\ MapSeq(Channel, RecordsOf(c, r)[k].buttons) = ValidChannels(RowAt(c, r))
        /\ (Expressions(RowAt(c, r)) = <<>>) => (RecordsOf(c, r) # <<>>)

\* a Meeting of a returned State whose row has a malformed url, a valid phone
\* and a valid email holds the phone button and then the email button
C8_Witness ==
    \E c \in calls : \E r \in Processed(c) :
        /\ pc[c] = "done"
        /\ trim(RowAt(c, r).url) # <<>>
        /\ ~urlParses(trim(RowAt(c, r).url))
        /\ RecordsOf(c, r) # <<>>
        /\ MapSeq(Channel, RecordsOf(c, r)[1].buttons) = <<"phone", "email">>


\* a console line about the value of one kind in row r
Line(r, value, kind) == [row |-> r + 2, value |-> value, type |-> kind]

\* the value of a channel is not empty and malformed
Malformed(row, kind) ==
    CASE kind = "URL" -> trim(row.url) # <<>> /\ ~urlParses(trim(row.url))
      [] kind = "phone number" ->
            trim(row.phone) # <<>> /\ Len(SelectSeq(trim(row.phone), IsDigit)) <= 8
      [] kind = "email address" ->
            trim(row.email) # <<>> /\ ~validateEmail(trim(row.email))

ValueOf(row, kind) ==
    CASE kind = "URL" -> trim(row.url)
      [] kind = "phone number" -> trim(row.phone)
      [] kind = "email address" -> trim(row.email)

ChannelKinds == {"URL", "phone number", "email address"}

\* C9: for every row load has processed, the console holds exactly one line
\* for each malformed url, phone and email value and for each occurrence of
\* an invalid time expression, naming row index + 2 and the trimmed
\* value, and no line for a valid or an empty value; every line on the console
\* is such a line, about a row load has reached; and load never ends in an
\* error at a row that has all the fields it reads, whatever it warned about.
C9_OneWarningPerMalformedValue ==
    \A c \in calls :
        /\ \A r \in Processed(c) :
              /\ \A kind \in ChannelKinds :
                    Count(console[c], Line(r, ValueOf(RowAt(c, r), kind), kind)) =
                        IF Malformed(RowAt(c, r), kind) THEN 1 ELSE 0
              /\ \A t \in Range(Expressions(RowAt(c, r))) :
                    Count(console[c], Line(r, t, "time")) =
                        IF isValid(t) THEN 0 ELSE Count(Expressions(RowAt(c, r)), t)
        /\ \A k \in 1..Len(console[c]) :
              LET r == console[c][k].row - 2
              IN  /\ r \in 0..i[c]
                  /\ r < Len(data[c])
                  /\ \/ /\ console[c][k].type \in ChannelKinds
                        /\ Malformed(RowAt(c, r), console[c][k].type)
                        /\ console[c][k].value = ValueOf(RowAt(c, r), console[c][k].type)
                     \/ /\ console[c][k].type = "time"
                        /\ console[c][k].value \in Range(Expressions(RowAt(c, r)))
                        /\ ~isValid(console[c][k].value)
        /\ (pc[c] = "threw" /\ i[c] < Len(data[c])) => (ThrowPos(RowAt(c, i[c])) # 0)

\* load has returned after a first row that warned about its url and about a
\* time expression and a second row that warned as well
C9_Witness ==
    \E c \in calls :
        /\ pc[c] = "done"
        /\ Len(data[c]) >= 2
        /\ \E j, k \in 1..Len(console[c]) :
              /\ console[c][j].row = 2 /\ console[c][j].type = "URL"
              /\ console[c][k].row = 3 /\ console[c][k].type = "time"
        /\ RecordsOf(c, 0) # <<>>
        /\ \E t \in Range(Expressions(RowAt(c, 1))) : isValid(t)

\* the maximal runs of atoms of s that are not in seps
RECURSIVE RunsOutside(_, _)
RunsOutside(s, seps) ==
    IF s = <<>> THEN <<>>
    ELSE IF Head(s) \in seps THEN RunsOutside(Tail(s), seps)
    ELSE LET ends == {n \in 1..Len(s) :
                         /\ \A k \in 1..n : s[k] \notin seps
                         /\ (n = Len(s) \/ s[n + 1] \in seps)}
             n == CHOOSE x \in ends : TRUE
         IN  <<SubSeq(s, 1, n)>> \o RunsOutside(SubSeq(s, n + 1, Len(s)), seps)

\* the words of a lowercased name, cut at the atoms of seps, one space between
IndexCutAt(name, seps) == join(RunsOutside(toLowerCase(name), seps), " ")

NoDoubleSpace(s) == \A k \in 1..(Len(s) - 1) : ~(s[k] = " " /\ s[k + 1] = " ")
NoEdgeSpace(s) == (s # <<>>) => (s[1] # " " /\ s[Len(s)] # " ")

\* C10, as stated: the search index of every Meeting is its lowercased name cut
\* at every whitespace character, the words joined by single spaces; it has no
\* double space and no space at either end, is its own lowercasing, and is the
\* index of itself.
C10_SearchCutAtAnyWhitespace ==
    \A c \in calls : \A k \in 1..Len(Produced(c)) :
        LET m == Produced(c)[k]
        IN  /\ m.search = IndexCutAt(m.name, {" ", "\t", "\n"})
            /\ NoDoubleSpace(m.search)
            /\ NoEdgeSpace(m.search)
            /\ toLowerCase(m.search) = m.search
            /\ IndexCutAt(m.search, {" ", "\t", "\n"}) = m.search

\* C10, amended: the search index of every Meeting is its lowercased name cut
\* at the space character only (a tab or a line break inside the name stays in
\* its word), the words joined by single spaces; it has no double space and no
\* space at either end, is its own lowercasing, and is the index of itself.
C10_SearchCutAtSpaces ==
    \A c \in calls : \A k \in 1..Len(Produced(c)) :
        LET m == Produced(c)[k]
        IN  /\ m.search = IndexCutAt(m.name, {" "})
            /\ NoDoubleSpace(m.search)
            /\ NoEdgeSpace(m.search)
            /\ toLowerCase(m.search) = m.search
            /\ searchIndex(m.search) = m.search

\* a Meeting of a returned State whose name has a capital, a tab and a space:
\* the index is in lower case and keeps the tab inside a word
C10_Witness ==
    \E c \in calls : \E k \in 1..Len(Produced(c)) :
        /\ pc[c] = "done"
        /\ "B" \in Range(Produced(c)[k].name)
        /\ " " \in Range(Produced(c)[k].search)
        /\ "\t" \in Range(Produced(c)[k].search)

====
